---- MODULE Spec2Model ----
(***************************************************************************)
(* Model of the climate-data retrieval, join, alignment and prediction     *)
(* pipeline of non_clinical_malaria_streamlit.py (zero-fill variant) and    *)
(* backup.py (mean-fill variant).                                           *)
(*                                                                          *)
(* A table (pandas DataFrame) is a record [cols, rows]: cols is the         *)
(* sequence of column labels, rows a sequence of rows, each row a sequence  *)
(* of cells aligned with cols.  A cell is a rational <<n, d>> in lowest     *)
(* terms with d > 0; NaN (a missing value) is <<0, 0>>.                     *)
(***************************************************************************)
EXTENDS Integers, Sequences, FiniteSets, TLC

\* ------------------------------------------------------------------ bounds
\* number of geometry rows of the shapefile
NRows == 3
\* size of the worker pool of the ThreadPoolExecutor
MaxWorkers == 2
\* number of runs of the script in one session
MaxRuns == 2
\* number of user sessions that save patient records
NSessions == 2
\* number of calls of DataManager.save_data
MaxSaves == 2
\* seconds the clock advances
MaxClock == 2
\* predictions made in the sessions
MaxPredictions == 2
\* longest patient ID passed to Config.validate_patient_id
MaxIdLen == 52

\* ------------------------------------------------------------------ cells
RECURSIVE GCD(_, _)
GCD(a, b) == IF b = 0 THEN a ELSE GCD(b, a % b)

Abs(n) == IF n < 0 THEN -n ELSE n

NaN == <<0, 0>>

IsNaN(c) == c[2] = 0

\* the rational n/d in lowest terms (d > 0)
Norm(n, d) ==
    LET g == GCD(Abs(n), d) IN
    IF n = 0 THEN <<0, 1>> ELSE <<n \div g, d \div g>>

Num(n) == <<n, 1>>

\* float addition: NaN is absorbing
Add(a, b) ==
    IF IsNaN(a) \/ IsNaN(b) THEN NaN
    ELSE Norm(a[1] * b[2] + b[1] * a[2], a[2] * b[2])

\* float division by a count: x / 0 of an empty sum is NaN
DivInt(a, k) ==
    IF IsNaN(a) \/ k = 0 THEN NaN ELSE Norm(a[1], a[2] * k)

\* ------------------------------------------------------------------ tables
Range(s) == {s[i] : i \in 1..Len(s)}

\* position of the first column labelled name, 0 when there is none
ColIndex(cols, name) ==
    IF \E j \in 1..Len(cols) : cols[j] = name
    THEN CHOOSE j \in 1..Len(cols) :
            cols[j] = name /\ \A k \in 1..(j - 1) : cols[k] # name
    ELSE 0

\* value of fetch_nasa_data when no location produced a table
None == [cols |-> <<>>, rows |-> <<>>]

RECURSIVE ConcatRows(_)
ConcatRows(ts) ==
    IF ts = <<>> THEN <<>> ELSE ts[1].rows \o ConcatRows(Tail(ts))

\* ------------------------------------------------------------------ inputs
\* centroids: the first two share the latitude, the first and third the
\* longitude
Coords == << <<1, 1>>, <<1, 2>>, <<2, 1>> >>

PARAMETERS == <<"T2M", "RH2M", "PRECTOTCORR">>

\* column layouts the API may answer with (the second one lacks T2M)
ApiLayouts == {PARAMETERS, <<"RH2M", "PRECTOTCORR">>}

\* the climate of a location on the selected date
Weather(loc) ==
    IF loc = Coords[1]
    THEN [T2M |-> Num(25), RH2M |-> Num(60), PRECTOTCORR |-> <<1, 2>>]
    ELSE IF loc = Coords[2]
    THEN [T2M |-> Num(30), RH2M |-> Num(55), PRECTOTCORR |-> Num(0)]
    ELSE [T2M |-> Num(20), RH2M |-> Num(70), PRECTOTCORR |-> Num(2)]

\* what the server does with one request
Responses == {"ok", "http_error", "net_error", "no_sentinel", "bad_csv"}

\* feature name lists a fitted scaler may have recorded
ExpectedLists ==
    { <<"Rainfall", "LST", "Relative_H">>,
      <<"LST", "Relative_H", "Rainfall">>,
      <<"LST", "NDVI", "Rainfall", "Relative_H">>,
      <<"Relative_H", "Rainfall">> }

\* assignments of centroids to the geometry rows, up to renaming of the
\* centroids: a row uses an earlier row's centroid or the next unused one
Geometries ==
    { g \in [1..NRows -> 1..Len(Coords)] :
        \A i \in 1..NRows :
            g[i] <= 1 + Cardinality({g[k] : k \in 1..(i - 1)}) }

\* the shapefile after lines 35-38: one row per ward with its centroid
Shapefile(g) ==
    [cols |-> <<"wardname", "lat", "lon">>,
     rows |-> [i \in 1..NRows |->
                 <<Num(i), Num(Coords[g[i]][1]), Num(Coords[g[i]][2])>>]]

VARIABLES
    variant,      \* "zero": non_clinical_malaria_streamlit.py, "mean": backup.py
    expected,     \* scaler.feature_names_in_
    apiCols,      \* column layout of the API's CSV
    gdf0,         \* the shapefile as read
    pc,           \* position of the script
    locations,    \* the location list
    fut,          \* futures: state and server response, per location
    yielded,      \* futures as_completed has yielded
    results,      \* fetch_nasa_data's results list
    exc,          \* exception travelling out of fetch_nasa_data
    df,           \* value of fetch_nasa_data
    gdf,          \* the geometry table
    X_pred,       \* feature table before reindex
    X_aligned,    \* feature table after reindex
    X_pred_scaled,
    pred_cases,
    calls,        \* stages invoked so far, in order
    message,      \* error shown to the user
    date,         \* the date selected in the sidebar
    run,          \* number of the current run of the script
    cache,        \* entries of st.cache_data for fetch_nasa_data
    logfile,      \* the patient-record log Config.DATA_PATH
    backups,      \* timestamps of the files backup_<timestamp>.csv
    clock,        \* datetime.now(), in seconds
    sess,         \* per session: position in save_data, its locals and result
    ncalls,       \* calls of save_data so far
    last,         \* the handler that ended last: its inputs and effects
    saved,        \* the records whose write to the log succeeded
    app,          \* the script in use: "improved", "pages" or "legacy"
    enable,       \* ENABLE_RETRAINING
    modelfile,    \* times the stored model file was overwritten (model.save)
    trained,      \* record counts at which training was attempted, in order
    npred,        \* predictions made so far
    vid,          \* the argument of Config.validate_patient_id
    vres          \* its result

vars == <<variant, expected, apiCols, gdf0, pc, locations, fut, yielded,
          results, exc, df, gdf, X_pred, X_aligned, X_pred_scaled,
          pred_cases, calls, message, date, run, cache,
          logfile, backups, clock, sess, ncalls, last, saved,
          app, enable, modelfile, trained, npred, vid, vres>>

\* the state of the patient-record log and of the calls of save_data
logVars == <<logfile, backups, clock, sess, ncalls, last, saved>>

\* the state of the symptom scripts around the log
appVars == <<app, enable, modelfile, trained, npred>>

\* a call of Config.validate_patient_id
validateVars == <<vid, vres>>

\* the state of the climate pipeline
pipelineVars ==
    <<variant, expected, apiCols, gdf0, pc, locations, fut, yielded,
      results, exc, df, gdf, X_pred, X_aligned, X_pred_scaled,
      pred_cases, calls, message, date, run, cache>>

\* what no step of a run of the script changes
fixedVars ==
    <<variant, expected, apiCols, gdf0, date, run, logVars, appVars,
      validateVars>>

Sessions == 1..NSessions

\* st.session_state without a pending prediction (patient_id is None)
NoPrediction ==
    [k |-> 0, pid |-> <<>>, features |-> <<>>, label |-> "none", time |-> 0]

\* no record
NoEntry ==
    [n |-> 0, k |-> 0, pid |-> <<>>, features |-> <<>>, predicted |-> "none"]

\* save_data has not returned
NoReturn == [success |-> FALSE, total |-> 0, msg |-> "none"]

\* a session outside its handlers that has no pending prediction
Idle ==
    [at |-> "idle", pending |-> NoPrediction, df |-> <<>>, entry |-> NoEntry,
     before |-> <<>>, ret |-> NoReturn, failures |-> {}, wrote |-> {}]

\* no handler has run yet
NoHandler ==
    [s |-> 0, op |-> "none", input |-> <<>>, feats |-> <<>>,
     was |-> NoPrediction, now |-> NoPrediction, shown |-> "none",
     entry |-> NoEntry, before |-> <<>>, after |-> <<>>, ret |-> NoReturn,
     failures |-> {}, wrote |-> {}, notice |-> 0, seen |-> 0,
     trained |-> FALSE]

\* dates the sidebar offers; the first one is the default
Dates == {1, 2}

NoMessage == [kind |-> "none", names |-> {}]

\* the climate script before its first statement
InitPipeline ==
    /\ pc = "locations"
    /\ locations = <<>>
    /\ fut = <<>>
    /\ yielded = {}
    /\ results = <<>>
    /\ exc = "none"
    /\ df = None
    /\ gdf = gdf0
    /\ X_pred = None
    /\ X_aligned = None
    /\ X_pred_scaled = None
    /\ pred_cases = <<>>
    /\ calls = <<>>
    /\ message = NoMessage
    /\ date = 1
    /\ run = 1
    /\ cache = {}

\* a new installation of the symptom scripts: no log, no backup
InitRecords ==
    /\ logfile = [exists |-> FALSE, rows |-> <<>>]
    /\ backups = {}
    /\ clock = 1
    /\ sess = [s \in Sessions |-> Idle]
    /\ ncalls = 0
    /\ last = NoHandler
    /\ saved = {}
    /\ app = "improved"
    /\ enable = FALSE
    /\ modelfile = 0
    /\ trained = <<>>
    /\ npred = 0

\* Config.validate_patient_id has not been called
NoResult == [ok |-> FALSE, msg |-> "not called"]

InitValidate ==
    /\ vid = <<>>
    /\ vres = NoResult

Init ==
    /\ variant \in {"zero", "mean"}
    /\ expected \in ExpectedLists
    /\ apiCols \in ApiLayouts
    /\ gdf0 \in {Shapefile(g) : g \in Geometries}
    /\ InitPipeline
    /\ InitRecords
    /\ InitValidate

\* ------------------------------------------------------- location list
\* gdf[["lat", "lon"]].drop_duplicates(): first occurrences, in row order
DropDuplicates_keep_all(s, seen) == s

RECURSIVE DropDuplicates(_, _)
DropDuplicates(s, seen) ==
    IF s = <<>> THEN <<>>
    ELSE IF s[1] \in seen THEN DropDuplicates(Tail(s), seen)
    ELSE <<s[1]>> \o DropDuplicates(Tail(s), seen \cup {s[1]})

LatLon(t) ==
    [i \in 1..Len(t.rows) |->
        <<t.rows[i][ColIndex(t.cols, "lat")], t.rows[i][ColIndex(t.cols, "lon")]>>]

Locations ==
    /\ pc = "locations"
    /\ locations' = DropDuplicates(LatLon(gdf), {})
    /\ pc' = "call_fetch"
    /\ UNCHANGED <<fixedVars, cache, fut, yielded, results,
                   exc, df, gdf, X_pred, X_aligned, X_pred_scaled,
                   pred_cases, calls, message>>

\* ------------------------------------------------------- fetch_nasa_data
\* the inner function fetch(lat, lon) given the server's response: either
\* an exception leaves it, or it returns a one-row table tagged with the
\* requesting location, or None
fetch_raise_for_status(loc, resp) ==
    IF resp = "net_error" THEN [exc |-> "ConnectionError", val |-> None]
    ELSE IF resp = "http_error" THEN [exc |-> "HTTPError", val |-> None]
    ELSE IF resp = "no_sentinel" THEN [exc |-> "StopIteration", val |-> None]
    ELSE IF resp = "bad_csv" THEN [exc |-> "ParserError", val |-> None]
    ELSE [exc |-> "none",
          val |-> [cols |-> apiCols \o <<"Latitude", "Longitude">>,
                   rows |-> << [j \in 1..Len(apiCols) |->
                                   Weather(<<loc[1][1], loc[2][1]>>)[apiCols[j]]]
                               \o <<loc[1], loc[2]>> >>]]

fetch(loc, resp) ==
    IF resp = "net_error" THEN [exc |-> "ConnectionError", val |-> None]
    ELSE IF resp = "http_error" THEN [exc |-> "none", val |-> None]
    ELSE IF resp = "no_sentinel" THEN [exc |-> "StopIteration", val |-> None]
    ELSE IF resp = "bad_csv" THEN [exc |-> "ParserError", val |-> None]
    ELSE [exc |-> "none",
          val |-> [cols |-> apiCols \o <<"Latitude", "Longitude">>,
                   rows |-> << [j \in 1..Len(apiCols) |->
                                   Weather(<<loc[1][1], loc[2][1]>>)[apiCols[j]]]
                               \o <<loc[1], loc[2]>> >>]]

concat_by_position(rs) ==
    IF rs = <<>> THEN None
    ELSE [cols |-> rs[1].cols,
          rows |-> [k \in 1..Len(rs) |->
                      [j \in 1..Len(rs[1].cols) |->
                         IF rs[1].cols[j] = "Latitude" THEN locations[k][1]
                         ELSE IF rs[1].cols[j] = "Longitude" THEN locations[k][2]
                         ELSE rs[k].rows[1][j]]]]

\* pd.concat(results, ignore_index=True) if results else None
concat(rs) ==
    IF rs = <<>> THEN None
    ELSE [cols |-> rs[1].cols, rows |-> ConcatRows(rs)]

\* futures whose request occupies a worker: requests.get has been issued and
\* fetch has not ended ("hung": the server never answers)
Running == {i \in 1..Len(fut) : fut[i].st \in {"running", "hung"}}
Pending == {i \in 1..Len(fut) : fut[i].st = "pending"}
Done == {i \in 1..Len(fut) : fut[i].st = "done"}

\* the entries st.cache_data holds for the arguments of the call
Cached == {e \in cache : e.key = <<locations, date>>}

\* the call of fetch_nasa_data is not served from the cache:
\* executor.submit for every location
Submit ==
    /\ pc = "call_fetch"
    /\ Cached = {}
    /\ fut' = [i \in 1..Len(locations) |->
                 [st |-> "pending", resp |-> "none", sent |-> 0]]
    /\ calls' = Append(calls, "fetch")
    /\ pc' = "as_completed"
    /\ UNCHANGED <<fixedVars, cache, locations, yielded,
                   results, exc, df, gdf, X_pred, X_aligned, X_pred_scaled,
                   pred_cases, message>>

\* st.cache_data holds a value for (locations, date): it is returned and the
\* body of fetch_nasa_data does not run
CacheHit ==
    /\ pc = "call_fetch"
    /\ Cached # {}
    /\ df' \in {e.val : e \in Cached}
    /\ calls' = Append(calls, "fetch")
    /\ pc' = "check_df"
    /\ UNCHANGED <<fixedVars, cache, locations, fut, yielded, results, exc,
                   gdf, X_pred, X_aligned, X_pred_scaled, pred_cases,
                   message>>

Start_unbounded(i) ==
    /\ pc \in {"as_completed", "shutdown"}
    /\ i \in Pending
    /\ \A k \in Pending : i <= k
    /\ fut' = [fut EXCEPT ![i].st = "running", ![i].sent = @ + 1]
    /\ UNCHANGED <<fixedVars, cache, pc, locations, yielded,
                   results, exc, df, gdf, X_pred, X_aligned, X_pred_scaled,
                   pred_cases, calls, message>>

\* a free worker takes the oldest queued request and issues requests.get
Start(i) ==
    /\ pc \in {"as_completed", "shutdown"}
    /\ i \in Pending
    /\ \A k \in Pending : i <= k
    /\ Cardinality(Running) < MaxWorkers
    /\ fut' = [fut EXCEPT ![i].st = "running", ![i].sent = @ + 1]
    /\ UNCHANGED <<fixedVars, cache, pc, locations, yielded,
                   results, exc, df, gdf, X_pred, X_aligned, X_pred_scaled,
                   pred_cases, calls, message>>

Finish_retry(i, resp) ==
    /\ pc \in {"as_completed", "shutdown"}
    /\ i \in 1..Len(fut)
    /\ fut[i].st = "running"
    /\ fut' = IF resp # "ok" /\ fut[i].sent < 2
              THEN [fut EXCEPT ![i].st = "pending"]
              ELSE [fut EXCEPT ![i].st = "done", ![i].resp = resp]
    /\ UNCHANGED <<fixedVars, cache, pc, locations, yielded,
                   results, exc, df, gdf, X_pred, X_aligned, X_pred_scaled,
                   pred_cases, calls, message>>

\* the server answers and fetch runs to its end; the future is done
Finish(i, resp) ==
    /\ pc \in {"as_completed", "shutdown"}
    /\ i \in 1..Len(fut)
    /\ fut[i].st = "running"
    /\ fut' = [fut EXCEPT ![i].st = "done", ![i].resp = resp]
    /\ UNCHANGED <<fixedVars, cache, pc, locations, yielded,
                   results, exc, df, gdf, X_pred, X_aligned, X_pred_scaled,
                   pred_cases, calls, message>>

\* the server never answers: requests.get(url) has no timeout and blocks
\* its worker for good
Hang(i) ==
    /\ pc \in {"as_completed", "shutdown"}
    /\ i \in 1..Len(fut)
    /\ fut[i].st = "running"
    /\ fut' = [fut EXCEPT ![i].st = "hung"]
    /\ UNCHANGED <<fixedVars, cache, pc, locations, yielded,
                   results, exc, df, gdf, X_pred, X_aligned, X_pred_scaled,
                   pred_cases, calls, message>>

\* one iteration of the as_completed loop: future.result() re-raises the
\* exception of fetch, a table is appended, None is skipped
Consume(i) ==
    /\ pc = "as_completed"
    /\ i \in Done \ yielded
    /\ yielded' = yielded \cup {i}
    /\ LET r == fetch(locations[i], fut[i].resp) IN
        IF r.exc # "none"
        THEN /\ exc' = r.exc
             /\ pc' = "shutdown"
             /\ UNCHANGED results
        ELSE /\ results' = IF r.val # None THEN Append(results, r.val)
                           ELSE results
             /\ UNCHANGED <<exc, pc>>
    /\ UNCHANGED <<fixedVars, cache, locations, fut, df, gdf,
                   X_pred, X_aligned, X_pred_scaled, pred_cases, calls,
                   message>>

\* the loop is over, the with block is left and the value is returned;
\* st.cache_data stores it under the arguments of the call
Return ==
    /\ pc = "as_completed"
    /\ yielded = 1..Len(fut)
    /\ df' = concat(results)
    /\ cache' = cache \cup {[key |-> <<locations, date>>, val |-> concat(results)]}
    /\ pc' = "check_df"
    /\ UNCHANGED <<fixedVars, locations, fut, yielded,
                   results, exc, gdf, X_pred, X_aligned, X_pred_scaled,
                   pred_cases, calls, message>>

Raise_no_wait ==
    /\ pc = "shutdown"
    /\ pc' = "crashed"
    /\ message' = [kind |-> exc, names |-> {}]
    /\ UNCHANGED <<fixedVars, cache, locations, fut, yielded,
                   results, exc, df, gdf, X_pred, X_aligned, X_pred_scaled,
                   pred_cases, calls>>

\* the exception leaves the with block once shutdown(wait=True) has waited
\* for every future, then leaves fetch_nasa_data and ends the script
Raise ==
    /\ pc = "shutdown"
    /\ Done = 1..Len(fut)
    /\ pc' = "crashed"
    /\ message' = [kind |-> exc, names |-> {}]
    /\ UNCHANGED <<fixedVars, cache, locations, fut, yielded,
                   results, exc, df, gdf, X_pred, X_aligned, X_pred_scaled,
                   pred_cases, calls>>

\* ------------------------------------------------------- the script's tail
feature_columns == <<"Rainfall", "LST", "Relative_H">>

\* rows of the right table whose (Latitude, Longitude) equals (lat, lon)
RECURSIVE Matches_lat_only(_, _, _, _)
Matches_lat_only(rrows, rcols, lat, lon) ==
    IF rrows = <<>> THEN <<>>
    ELSE (IF rrows[1][ColIndex(rcols, "Latitude")] = lat
          THEN <<rrows[1]>> ELSE <<>>)
         \o Matches_lat_only(Tail(rrows), rcols, lat, lon)

RECURSIVE Matches(_, _, _, _)
Matches(rrows, rcols, lat, lon) ==
    IF rrows = <<>> THEN <<>>
    ELSE (IF /\ rrows[1][ColIndex(rcols, "Latitude")] = lat
             /\ rrows[1][ColIndex(rcols, "Longitude")] = lon
          THEN <<rrows[1]>> ELSE <<>>)
         \o Matches(Tail(rrows), rcols, lat, lon)

RECURSIVE JoinRows(_, _, _)
JoinRows(lrows, left, right) ==
    IF lrows = <<>> THEN <<>>
    ELSE LET l == lrows[1]
             m == Matches(right.rows, right.cols,
                          l[ColIndex(left.cols, "lat")],
                          l[ColIndex(left.cols, "lon")])
         IN (IF m = <<>>
             THEN << l \o [j \in 1..Len(right.cols) |-> NaN] >>
             ELSE [k \in 1..Len(m) |-> l \o m[k]])
            \o JoinRows(Tail(lrows), left, right)

\* gdf.merge(df, left_on=["lat", "lon"],
\*           right_on=["Latitude", "Longitude"], how="left")
merge(left, right) ==
    [cols |-> left.cols \o right.cols,
     rows |-> JoinRows(left.rows, left, right)]

\* rename(columns={"PRECTOTCORR": "Rainfall", "T2M": "LST",
\*                 "RH2M": "Relative_H"})
NewName_swapped(c) ==
    IF c = "PRECTOTCORR" THEN "LST"
    ELSE IF c = "T2M" THEN "Rainfall"
    ELSE IF c = "RH2M" THEN "Relative_H"
    ELSE c

NewName(c) ==
    IF c = "PRECTOTCORR" THEN "Rainfall"
    ELSE IF c = "T2M" THEN "LST"
    ELSE IF c = "RH2M" THEN "Relative_H"
    ELSE c

rename(t) ==
    [cols |-> [j \in 1..Len(t.cols) |-> NewName(t.cols[j])], rows |-> t.rows]

\* positions of the columns t[names] selects, in the order of names
RECURSIVE Positions(_, _)
Positions(cols, names) ==
    IF names = <<>> THEN <<>>
    ELSE SelectSeq([j \in 1..Len(cols) |-> j],
                   LAMBDA j : cols[j] = names[1])
         \o Positions(cols, Tail(names))

\* t[names]
select(t, names) ==
    LET ps == Positions(t.cols, names) IN
    [cols |-> [k \in 1..Len(ps) |-> t.cols[ps[k]]],
     rows |-> [i \in 1..Len(t.rows) |->
                 [k \in 1..Len(ps) |-> t.rows[i][ps[k]]]]]

\* the names of feature_columns that label no column of t
Missing(t) == {f \in Range(feature_columns) : f \notin Range(t.cols)}

\* t[feature_columns] = t[feature_columns].fillna(0)
fillna_zero(t) ==
    [cols |-> t.cols,
     rows |-> [i \in 1..Len(t.rows) |->
                 [j \in 1..Len(t.cols) |->
                    IF t.cols[j] \in Range(feature_columns)
                       /\ IsNaN(t.rows[i][j])
                    THEN Num(0) ELSE t.rows[i][j]]]]

\* Series.mean() of column j: NaN cells are skipped
RECURSIVE SumFrom(_, _, _)
SumFrom(rows, j, i) ==
    IF i > Len(rows) THEN Num(0)
    ELSE IF IsNaN(rows[i][j]) THEN SumFrom(rows, j, i + 1)
    ELSE Add(rows[i][j], SumFrom(rows, j, i + 1))

mean_all_rows(t, j) == DivInt(SumFrom(t.rows, j, 1), Len(t.rows))

mean(t, j) ==
    DivInt(SumFrom(t.rows, j, 1),
           Cardinality({i \in 1..Len(t.rows) : ~IsNaN(t.rows[i][j])}))

fillna_mean_every_cell(t) ==
    [cols |-> t.cols,
     rows |-> [i \in 1..Len(t.rows) |->
                 [j \in 1..Len(t.cols) |->
                    mean(t, ColIndex(t.cols, t.cols[j]))]]]

\* t.fillna(t.mean())
fillna_mean(t) ==
    [cols |-> t.cols,
     rows |-> [i \in 1..Len(t.rows) |->
                 [j \in 1..Len(t.cols) |->
                    IF IsNaN(t.rows[i][j])
                    THEN mean(t, ColIndex(t.cols, t.cols[j]))
                    ELSE t.rows[i][j]]]]

\* t.loc[:, ~t.columns.duplicated()]: first column of every label
drop_duplicated(t) ==
    LET ps == SelectSeq([j \in 1..Len(t.cols) |-> j],
                        LAMBDA j : ColIndex(t.cols, t.cols[j]) = j) IN
    [cols |-> [k \in 1..Len(ps) |-> t.cols[ps[k]]],
     rows |-> [i \in 1..Len(t.rows) |->
                 [k \in 1..Len(ps) |-> t.rows[i][ps[k]]]]]

reindex_positional(t, names) ==
    [cols |-> names,
     rows |-> [i \in 1..Len(t.rows) |->
                 [k \in 1..Len(names) |->
                    IF k > Len(t.cols) THEN Num(0) ELSE t.rows[i][k]]]]

\* t.reindex(columns=names, fill_value=0)
reindex(t, names) ==
    [cols |-> names,
     rows |-> [i \in 1..Len(t.rows) |->
                 [k \in 1..Len(names) |->
                    IF ColIndex(t.cols, names[k]) = 0 THEN Num(0)
                    ELSE t.rows[i][ColIndex(t.cols, names[k])]]]]

\* the fitted scaler: column k is centred on k and divided by 2
transform(t) ==
    [cols |-> t.cols,
     rows |-> [i \in 1..Len(t.rows) |->
                 [k \in 1..Len(t.cols) |->
                    DivInt(Add(t.rows[i][k], Num(-k)), 2)]]]

RECURSIVE RowSum(_)
RowSum(r) == IF r = <<>> THEN Num(0) ELSE Add(r[1], RowSum(Tail(r)))

\* astype(int): truncation towards zero
AsInt(c) == IF c[1] >= 0 THEN c[1] \div c[2] ELSE -((-c[1]) \div c[2])

\* the fitted model, a function of the scaled row, cast to int
predict(t) == [i \in 1..Len(t.rows) |-> AsInt(RowSum(t.rows[i]))]

HasNaN(t) ==
    \E i \in 1..Len(t.rows) : \E j \in 1..Len(t.cols) : IsNaN(t.rows[i][j])

\* else branch of "if df is not None"
RetrievalFailed ==
    /\ pc = "check_df"
    /\ df = None
    /\ pc' = "error_retrieval"
    /\ message' = [kind |-> "Climate data retrieval failed", names |-> {}]
    /\ UNCHANGED <<fixedVars, cache, locations, fut, yielded,
                   results, exc, df, gdf, X_pred, X_aligned, X_pred_scaled,
                   pred_cases, calls>>

Merge ==
    /\ pc = "check_df"
    /\ df # None
    /\ gdf' = merge(gdf, df)
    /\ calls' = Append(calls, "merge")
    /\ pc' = "merged"
    /\ UNCHANGED <<fixedVars, cache, locations, fut, yielded,
                   results, exc, df, X_pred, X_aligned, X_pred_scaled,
                   pred_cases, message>>

Rename ==
    /\ pc = "merged"
    /\ gdf' = rename(gdf)
    /\ calls' = Append(calls, "rename")
    /\ pc' = "renamed"
    /\ UNCHANGED <<fixedVars, cache, locations, fut, yielded,
                   results, exc, df, X_pred, X_aligned, X_pred_scaled,
                   pred_cases, message>>

\* non_clinical_malaria_streamlit.py line 83: indexing with a label that is
\* not a column raises KeyError, whose text lists the labels not found
FillZero ==
    /\ pc = "renamed"
    /\ variant = "zero"
    /\ IF Missing(gdf) # {}
       THEN /\ pc' = "crashed"
            /\ message' = [kind |-> "KeyError", names |-> Missing(gdf)]
            /\ UNCHANGED <<gdf, calls>>
       ELSE /\ gdf' = fillna_zero(gdf)
            /\ calls' = Append(calls, "fill")
            /\ pc' = "filled"
            /\ UNCHANGED message
    /\ UNCHANGED <<fixedVars, cache, locations, fut, yielded,
                   results, exc, df, X_pred, X_aligned, X_pred_scaled,
                   pred_cases>>

\* non_clinical_malaria_streamlit.py line 86
DedupGdf ==
    /\ pc = "filled"
    /\ variant = "zero"
    /\ gdf' = drop_duplicated(gdf)
    /\ calls' = Append(calls, "dedup")
    /\ pc' = "deduped_gdf"
    /\ UNCHANGED <<fixedVars, cache, locations, fut, yielded,
                   results, exc, df, X_pred, X_aligned, X_pred_scaled,
                   pred_cases, message>>

\* non_clinical_malaria_streamlit.py line 90
Select ==
    /\ pc = "deduped_gdf"
    /\ X_pred' = select(gdf, feature_columns)
    /\ pc' = "deduped"
    /\ UNCHANGED <<fixedVars, cache, locations, fut, yielded,
                   results, exc, df, gdf, X_aligned, X_pred_scaled,
                   pred_cases, calls, message>>

\* backup.py lines 81 and 97-99: the feature check and its else branch
FeatureCheck ==
    /\ pc = "renamed"
    /\ variant = "mean"
    /\ IF Missing(gdf) = {}
       THEN /\ pc' = "checked"
            /\ UNCHANGED message
       ELSE /\ pc' = "stopped"
            /\ message' = [kind |-> "Missing required climate features for prediction",
                           names |-> {}]
    /\ UNCHANGED <<fixedVars, cache, locations, fut, yielded,
                   results, exc, df, gdf, X_pred, X_aligned, X_pred_scaled,
                   pred_cases, calls>>

\* backup.py line 82
FillMean ==
    /\ pc = "checked"
    /\ X_pred' = fillna_mean(select(gdf, feature_columns))
    /\ calls' = Append(calls, "fill")
    /\ pc' = "filled"
    /\ UNCHANGED <<fixedVars, cache, locations, fut, yielded,
                   results, exc, df, gdf, X_aligned, X_pred_scaled,
                   pred_cases, message>>

\* backup.py line 85
DedupX ==
    /\ pc = "filled"
    /\ variant = "mean"
    /\ X_pred' = drop_duplicated(X_pred)
    /\ calls' = Append(calls, "dedup")
    /\ pc' = "deduped"
    /\ UNCHANGED <<fixedVars, cache, locations, fut, yielded,
                   results, exc, df, gdf, X_aligned, X_pred_scaled,
                   pred_cases, message>>

Reindex_before_dedup ==
    /\ \/ pc = "deduped"
       \/ pc = "filled" /\ variant = "mean"
    /\ X_aligned' = reindex(X_pred, expected)
    /\ calls' = Append(calls, "align")
    /\ pc' = "aligned"
    /\ UNCHANGED <<fixedVars, cache, locations, fut, yielded,
                   results, exc, df, gdf, X_pred, X_pred_scaled, pred_cases,
                   message>>

Reindex ==
    /\ pc = "deduped"
    /\ X_aligned' = reindex(X_pred, expected)
    /\ calls' = Append(calls, "align")
    /\ pc' = "aligned"
    /\ UNCHANGED <<fixedVars, cache, locations, fut, yielded,
                   results, exc, df, gdf, X_pred, X_pred_scaled, pred_cases,
                   message>>

Transform ==
    /\ pc = "aligned"
    /\ X_pred_scaled' = transform(X_aligned)
    /\ calls' = Append(calls, "transform")
    /\ pc' = "scaled"
    /\ UNCHANGED <<fixedVars, cache, locations, fut, yielded,
                   results, exc, df, gdf, X_pred, X_aligned, pred_cases,
                   message>>

Predict_unscaled ==
    /\ pc = "scaled"
    /\ calls' = Append(calls, "predict")
    /\ pred_cases' = predict(X_aligned)
    /\ pc' = "predicted"
    /\ UNCHANGED <<fixedVars, cache, locations, fut, yielded,
                   results, exc, df, gdf, X_pred, X_aligned, X_pred_scaled,
                   message>>

Predict ==
    /\ pc = "scaled"
    /\ calls' = Append(calls, "predict")
    /\ IF HasNaN(X_pred_scaled)
       THEN /\ pc' = "crashed"
            /\ message' = [kind |-> "ValueError", names |-> {}]
            /\ UNCHANGED pred_cases
       ELSE /\ pred_cases' = predict(X_pred_scaled)
            /\ pc' = "predicted"
            /\ UNCHANGED message
    /\ UNCHANGED <<fixedVars, cache, locations, fut, yielded,
                   results, exc, df, gdf, X_pred, X_aligned, X_pred_scaled>>

\* ------------------------------------------------------------------ claims
\* fetch_nasa_data has returned or raised
FetchOver == pc \notin {"locations", "call_fetch", "as_completed", "shutdown"}

\* the script has ended
Terminal == pc \in {"error_retrieval", "crashed", "stopped", "predicted"}

\* indices of the locations the server answered in the given ways
Answered(kinds) == {i \in 1..Len(fut) : fut[i].resp \in kinds}

\* the fetched table holds a record tagged with location i
InTable(i) ==
    \E r \in 1..Len(df.rows) :
        /\ df.rows[r][ColIndex(df.cols, "Latitude")] = locations[i][1]
        /\ df.rows[r][ColIndex(df.cols, "Longitude")] = locations[i][2]

\* the centroid of geometry row i, and whether its request was answered
\* with a well-formed payload
RowLoc(i) ==
    <<gdf0.rows[i][ColIndex(gdf0.cols, "lat")],
      gdf0.rows[i][ColIndex(gdf0.cols, "lon")]>>

HasRecord(i) == \E k \in Answered({"ok"}) : locations[k] = RowLoc(i)

\* the value the API reports for parameter p at the centroid of row i
Fetched(i, p) == Weather(<<RowLoc(i)[1][1], RowLoc(i)[2][1]>>)[p]

\* the API parameter a feature is fetched as
ParamOf(f) ==
    IF f = "Rainfall" THEN "PRECTOTCORR"
    ELSE IF f = "LST" THEN "T2M"
    ELSE "RH2M"

\* C1: when k locations answer non-200 and the other n-k > 0 answer 200 with
\* a well-formed payload, fetch_nasa_data raises nothing and its table holds
\* one record for each of the n-k successful locations, carrying that
\* location's values, and no record for a failed one.
C1_PartialHttpFailure ==
    (/\ FetchOver
     /\ Answered({"ok", "http_error"}) = 1..Len(fut)
     /\ Answered({"ok"}) # {})
    => /\ exc = "none"
       /\ df # None
       /\ Len(df.rows) = Cardinality(Answered({"ok"}))
       /\ \A i \in 1..Len(fut) : InTable(i) <=> i \in Answered({"ok"})
       /\ \A r \in 1..Len(df.rows) : \A p \in Range(apiCols) :
            df.rows[r][ColIndex(df.cols, p)]
              = Weather(<<df.rows[r][ColIndex(df.cols, "Latitude")][1],
                          df.rows[r][ColIndex(df.cols, "Longitude")][1]>>)[p]

C1_Witness ==
    /\ FetchOver
    /\ Answered({"ok", "http_error"}) = 1..Len(fut)
    /\ Cardinality(Answered({"ok"})) = 2
    /\ Cardinality(Answered({"http_error"})) = 1
    /\ df # None

\* C2: a network error for one location is not propagated out of
\* fetch_nasa_data; the location is absent from the result and the records
\* of the successful locations are returned.
C2_NetworkErrorContained ==
    (/\ FetchOver
     /\ Answered({"ok", "net_error"}) = 1..Len(fut)
     /\ Answered({"net_error"}) # {}
     /\ Answered({"ok"}) # {})
    => /\ exc = "none"
       /\ \A i \in 1..Len(fut) : InTable(i) <=> i \in Answered({"ok"})

\* C3: a 200 response without the -END HEADER- line is a failure of that
\* location only; no exception leaves fetch_nasa_data and the records of
\* the other locations are returned.
C3_MissingSentinelContained ==
    (/\ FetchOver
     /\ Answered({"ok", "no_sentinel"}) = 1..Len(fut)
     /\ Answered({"no_sentinel"}) # {}
     /\ Answered({"ok"}) # {})
    => /\ exc = "none"
       /\ \A i \in 1..Len(fut) : InTable(i) <=> i \in Answered({"ok"})

\* C4: when every location fails, the script ends showing that climate-data
\* retrieval failed, and merge, transform and predict are never invoked.
C4_AllFailedIsRetrievalError ==
    (FetchOver /\ Answered({"ok"}) = {})
    => /\ Range(calls) \cap {"merge", "transform", "predict"} = {}
       /\ Terminal => /\ pc = "error_retrieval"
                      /\ message.kind = "Climate data retrieval failed"

\* C5: right after the left join, the climate fields of a geometry row are
\* populated (with the values fetched for its centroid) if and only if a
\* record was fetched for the row's (lat, lon); the join keeps the number of
\* rows and every original geometry attribute of every row.
C5_JoinCorrect ==
    pc = "merged"
    => /\ Len(gdf.rows) = Len(gdf0.rows)
       /\ \A i \in 1..Len(gdf0.rows) :
            /\ \A j \in 1..Len(gdf0.cols) :
                 /\ gdf.cols[j] = gdf0.cols[j]
                 /\ gdf.rows[i][j] = gdf0.rows[i][j]
            /\ \A p \in Range(apiCols) :
                 LET v == gdf.rows[i][ColIndex(gdf.cols, p)] IN
                 /\ ~IsNaN(v) <=> HasRecord(i)
                 /\ HasRecord(i) => v = Fetched(i, p)

C5_Witness ==
    /\ pc = "merged"
    /\ \E i \in 1..NRows : HasRecord(i)
    /\ \E i \in 1..NRows : ~HasRecord(i)

\* permutations of the columns of a table
Perms(n) ==
    {p \in [1..n -> 1..n] : \A a, b \in 1..n : p[a] = p[b] => a = b}

PermuteCols(t, p) ==
    [cols |-> [k \in 1..Len(t.cols) |-> t.cols[p[k]]],
     rows |-> [i \in 1..Len(t.rows) |->
                 [k \in 1..Len(t.cols) |-> t.rows[i][p[k]]]]]

Aligned == pc \in {"aligned", "scaled", "predicted"}

\* C6: the aligned table has its columns in the order of the scaler's
\* expected list, each expected name that labels an input column carries
\* that column's values, and aligning any permutation of the input columns
\* gives the same aligned table.
C6_AlignOrderIndependent ==
    Aligned
    => /\ X_aligned.cols = expected
       /\ \A k \in 1..Len(expected) :
            expected[k] \in Range(X_pred.cols)
            => \A i \in 1..Len(X_pred.rows) :
                 X_aligned.rows[i][k]
                   = X_pred.rows[i][ColIndex(X_pred.cols, expected[k])]
       /\ \A p \in Perms(Len(X_pred.cols)) :
            reindex(PermuteCols(X_pred, p), expected) = X_aligned

C6_Witness ==
    /\ Aligned
    /\ Len(X_aligned.rows) = NRows
    /\ expected[1] # X_pred.cols[1]
    /\ \E i \in 1..NRows : X_pred.rows[i][1] # X_pred.rows[i][2]

\* C7: the aligned table's columns are exactly the expected names; under
\* Rainfall, LST and Relative_H a row with a fetched record carries the
\* values fetched as PRECTOTCORR, T2M and RH2M, and every other expected
\* name is 0 in every row.
C7_AlignedValues ==
    Aligned
    => /\ X_aligned.cols = expected
       /\ Len(X_aligned.rows) = Len(gdf0.rows)
       /\ \A i \in 1..Len(gdf0.rows) : \A k \in 1..Len(expected) :
            IF expected[k] \in Range(feature_columns)
            THEN HasRecord(i)
                 => X_aligned.rows[i][k] = Fetched(i, ParamOf(expected[k]))
            ELSE X_aligned.rows[i][k] = Num(0)

C7_Witness ==
    /\ Aligned
    /\ \E k \in 1..Len(expected) : expected[k] \notin Range(feature_columns)
    /\ expected[1] = "LST"
    /\ \E i \in 1..NRows : HasRecord(i)

\* C8: when one of Rainfall, LST, Relative_H is not a column of the merged
\* data, the script stops with an error message naming the missing columns
\* and predict is never invoked, in both variants.
C8_MissingColumnsNamed ==
    ("rename" \in Range(calls) /\ Missing(gdf) # {})
    => /\ "predict" \notin Range(calls)
       /\ Terminal => /\ message.kind # "none"
                      /\ message.names = Missing(gdf)

\* the table gap-filling is applied to: the renamed join
Joined == rename(merge(gdf0, df))

\* the table handed to reindex holds the gap-filled features
Filled == pc \in {"deduped", "aligned", "scaled", "predicted"}

\* sum and number of the values fetched as p over the rows that have a record
RECURSIVE FetchedSum(_, _)
FetchedSum(p, i) ==
    IF i > Len(gdf0.rows) THEN Num(0)
    ELSE IF HasRecord(i) THEN Add(Fetched(i, p), FetchedSum(p, i + 1))
    ELSE FetchedSum(p, i + 1)

FetchedMean(p) ==
    DivInt(FetchedSum(p, 1),
           Cardinality({i \in 1..Len(gdf0.rows) : HasRecord(i)}))

\* C9: in the features handed on to alignment and the scaler, a row without
\* a climate record holds 0 (zero-fill variant) or the mean of the column
\* over the rows that have a value (mean-fill variant) in Rainfall, LST and
\* Relative_H, a row with a record keeps its fetched values, and no missing
\* value reaches the scaler.
C9_GapFill ==
    Filled
    => /\ X_pred.cols = feature_columns
       /\ Len(X_pred.rows) = Len(gdf0.rows)
       /\ \A i \in 1..Len(gdf0.rows) : \A k \in 1..Len(feature_columns) :
            X_pred.rows[i][k] =
              IF HasRecord(i) THEN Fetched(i, ParamOf(feature_columns[k]))
              ELSE IF variant = "zero" THEN Num(0)
              ELSE FetchedMean(ParamOf(feature_columns[k]))
       /\ ~HasNaN(X_pred)
       /\ pc \in {"scaled", "predicted"} => ~HasNaN(X_aligned)

C9_Witness ==
    /\ pc = "scaled"
    /\ variant = "mean"
    /\ \E i \in 1..NRows : ~HasRecord(i)
    /\ Cardinality({i \in 1..NRows : HasRecord(i)}) = 2
    /\ \E i \in 1..NRows : X_pred.rows[i][1] = <<1, 4>>

\* C10: gap-filling data without missing climate values changes nothing,
\* and gap-filling the gap-filled data again changes nothing, under the
\* zero-fill and the mean-fill policy.
C10_GapFillIdempotent ==
    pc = "filled"
    => IF variant = "zero"
       THEN /\ fillna_zero(gdf) = gdf
            /\ ~HasNaN(select(Joined, feature_columns)) => gdf = Joined
       ELSE /\ fillna_mean(X_pred) = X_pred
            /\ ~HasNaN(select(Joined, feature_columns))
               => X_pred = select(Joined, feature_columns)

C10_Witness ==
    /\ pc = "filled"
    /\ variant = "mean"
    /\ ~HasNaN(select(Joined, feature_columns))
    /\ \E i \in 1..NRows : X_pred.rows[i] # X_pred.rows[1]

\* the records of the locations answered with a well-formed payload, in the
\* order of the location list
RECURSIVE RecordsFrom(_)
RecordsFrom(i) ==
    IF i > Len(fut) THEN <<>>
    ELSE (IF fut[i].resp = "ok"
          THEN << [j \in 1..Len(apiCols) |->
                     Weather(<<locations[i][1][1], locations[i][2][1]>>)[apiCols[j]]]
                  \o locations[i] >>
          ELSE <<>>)
         \o RecordsFrom(i + 1)

InListOrder ==
    [cols |-> apiCols \o <<"Latitude", "Longitude">>, rows |-> RecordsFrom(1)]

\* the features the script derives from a fetched table
FeaturesOf(t) ==
    IF variant = "zero"
    THEN select(drop_duplicated(fillna_zero(rename(merge(gdf0, t)))),
                feature_columns)
    ELSE drop_duplicated(fillna_mean(select(rename(merge(gdf0, t)),
                                            feature_columns)))

\* the body of fetch_nasa_data ran in this run and is over
BatchOver == FetchOver /\ fut # <<>>

\* C11: whatever the order in which the fetches complete, the returned
\* records are those of the answered locations, each tagged with the
\* latitude/longitude of its own request, and the merged table and the
\* predictions equal those obtained from the records in list order.
C11_CompletionOrderIrrelevant ==
    (BatchOver /\ df # None)
    => /\ Range(df.rows) = Range(InListOrder.rows)
       /\ Len(df.rows) = Len(InListOrder.rows)
       /\ pc = "merged" => gdf = merge(gdf0, InListOrder)
       /\ pc = "predicted"
          => pred_cases
               = predict(transform(reindex(FeaturesOf(InListOrder), expected)))

C11_Witness ==
    /\ pc = "predicted"
    /\ BatchOver
    /\ Len(df.rows) = 3
    /\ df.rows # InListOrder.rows

\* C12: the number of requests in flight never exceeds the size of the
\* worker pool, a size that does not depend on the number of locations.
C12_BoundedInFlight == Cardinality(Running) <= MaxWorkers

C12_Witness ==
    /\ Cardinality(Running) = MaxWorkers
    /\ Pending # {}
    /\ Len(locations) > MaxWorkers

\* C13: no location is requested twice, and when the batch is over every
\* location of the list has been requested exactly once, whatever the
\* outcomes of the requests.
C13_RequestedExactlyOnce ==
    /\ \A i \in 1..Len(fut) : fut[i].sent <= 1
    /\ BatchOver => /\ Len(fut) = Len(locations)
                    /\ \A i \in 1..Len(fut) : fut[i].sent = 1

C13_Witness ==
    /\ BatchOver
    /\ pc = "crashed"
    /\ Len(fut) = 3
    /\ Answered({"ok"}) # {}
    /\ Answered({"http_error"}) # {}
    /\ yielded # 1..Len(fut)

\* C14: fetch_nasa_data returns, with a value or with an exception, only
\* when every fetch it submitted has finished.
C14_ReturnsAfterAllFinished ==
    BatchOver => Done = 1..Len(fut)

C14_Witness ==
    /\ BatchOver
    /\ exc # "none"
    /\ Len(fut) = 3
    /\ Cardinality(yielded) = 1

\* C15: every request has a bounded timeout, so a batch in which the server
\* never answers one request still ends: fetch_nasa_data eventually returns.
C15_BatchEventuallyOver == <>FetchOver

\* C16: the location list holds no (lat, lon) pair twice and holds the
\* (lat, lon) of every geometry row, so the rows sharing a centroid cause a
\* single request: a batch issues one request per distinct centroid.
C16_DistinctLocations ==
    pc # "locations"
    => /\ \A a, b \in 1..Len(locations) : locations[a] = locations[b] => a = b
       /\ Range(locations) = Range(LatLon(gdf0))
       /\ BatchOver => Len(fut) = Cardinality(Range(LatLon(gdf0)))

C16_Witness ==
    /\ BatchOver
    /\ Len(locations) = 2
    /\ Cardinality(Range(LatLon(gdf0))) < Len(gdf0.rows)
    /\ \A i \in 1..Len(fut) : fut[i].sent = 1

\* position of the first occurrence of a stage in calls, 0 when absent
StageAt(stage) == ColIndex(calls, stage)

NoDuplicateLabels(t) ==
    \A a, b \in 1..Len(t.cols) : t.cols[a] = t.cols[b] => a = b

IsStage(c) ==
    c \in {"fetch", "merge", "fill", "align", "transform", "predict"}

\* C19: a run that predicts went through fetch, join, gap-fill, align,
\* transform and predict in that order, predict was given the scaler's
\* transform of the aligned features, and there is exactly one integer
\* prediction per geometry row.
C19_StageOrder ==
    /\ StageAt("predict") # 0
       => SelectSeq(calls, IsStage)
            = <<"fetch", "merge", "fill", "align", "transform", "predict">>
    /\ pc = "predicted"
       => /\ X_aligned = reindex(X_pred, expected)
          /\ X_pred_scaled = transform(X_aligned)
          /\ pred_cases = predict(X_pred_scaled)
          /\ Len(pred_cases) = Len(gdf0.rows)
          /\ Len(gdf.rows) = Len(gdf0.rows)
          /\ \A i \in 1..Len(pred_cases) : pred_cases[i] \in Int

C19_Witness ==
    /\ pc = "predicted"
    /\ Len(pred_cases) = NRows
    /\ Len(locations) = 2
    /\ Cardinality(Answered({"ok"})) = 1

\* C18: every run of the script issues fresh requests for its locations
\* and date, also after an earlier run with the same locations and date and
\* also after an earlier run that ended in a whole-batch failure.
C18_FreshRequestsEveryRun ==
    FetchOver => /\ Len(fut) = Len(locations)
                 /\ \A i \in 1..Len(fut) : fut[i].sent = 1

\* ------------------------------------------------ validation (config.py)
\* A string is a sequence of characters; "LF" is the newline and "NUL" a
\* control character.
PATIENT_ID_MIN_LENGTH == 3
PATIENT_ID_MAX_LENGTH == 50

\* the characters of the class [A-Za-z0-9_-]
PatternChars == {"a", "Z", "7", "_", "-"}

\* str.isspace and str.isprintable
Whitespace == {" ", "LF"}
Printable == PatternChars \cup {" ", "!"}

Chars == PatternChars \cup {" ", "!", "LF", "NUL"}

\* re.match(PATIENT_ID_PATTERN, s): one or more characters of the class up
\* to $, which matches at the end of the string and also just before a
\* newline that is the last character
re_match(s) ==
    LET body == IF s # <<>> /\ s[Len(s)] = "LF"
                THEN SubSeq(s, 1, Len(s) - 1)
                ELSE s
    IN  /\ body # <<>>
        /\ \A i \in 1..Len(body) : body[i] \in PatternChars

\* Config.validate_patient_id
validate_patient_id(s) ==
    IF s = <<>>
    THEN [ok |-> FALSE, msg |-> "Patient ID cannot be empty"]
    ELSE IF Len(s) < PATIENT_ID_MIN_LENGTH
    THEN [ok |-> FALSE, msg |-> "Patient ID must be at least 3 characters"]
    ELSE IF Len(s) > PATIENT_ID_MAX_LENGTH
    THEN [ok |-> FALSE, msg |-> "Patient ID cannot exceed 50 characters"]
    ELSE IF ~re_match(s)
    THEN [ok |-> FALSE,
          msg |-> "Patient ID can only contain letters, numbers, underscores, and hyphens"]
    ELSE [ok |-> TRUE, msg |-> ""]

\* str.strip(): leading and trailing whitespace removed
RECURSIVE lstrip(_)
lstrip(s) ==
    IF s # <<>> /\ s[1] \in Whitespace THEN lstrip(Tail(s)) ELSE s

RECURSIVE rstrip(_)
rstrip(s) ==
    IF s # <<>> /\ s[Len(s)] \in Whitespace
    THEN rstrip(SubSeq(s, 1, Len(s) - 1))
    ELSE s

strip(s) == rstrip(lstrip(s))

\* ValidationHelper.sanitize_patient_id: strip, then drop what is not
\* printable
sanitize_patient_id(s) == SelectSeq(strip(s), LAMBDA c : c \in Printable)

\* ValidationHelper.validate_prediction_inputs
validate_prediction_inputs(patient_id, selected_features) ==
    IF ~validate_patient_id(patient_id).ok
    THEN validate_patient_id(patient_id)
    ELSE IF \A i \in 1..Len(selected_features) : selected_features[i] = 0
    THEN [ok |-> FALSE, msg |-> "Please select at least one symptom before predicting."]
    ELSE [ok |-> TRUE, msg |-> ""]

\* patient IDs of every length up to MaxIdLen: one character repeated,
\* possibly with another character in the first or the last place
Repeat(c, n) == [i \in 1..n |-> c]

PatientIds ==
    {Repeat(c, n) : c \in {"a", "7"}, n \in 0..MaxIdLen}
    \cup UNION {{[Repeat("a", n) EXCEPT ![i] = d] : i \in {1, n}, d \in Chars} :
                  n \in 1..MaxIdLen}

\* a call of Config.validate_patient_id
Validate ==
    /\ vres = NoResult
    /\ vres' = validate_patient_id(vid)
    /\ UNCHANGED <<pipelineVars, logVars, appVars, vid>>

\* the IDs the claim describes: 3 to 50 characters, each one a letter, a
\* digit, an underscore or a hyphen
WellFormed(s) ==
    /\ Len(s) >= 3
    /\ Len(s) <= 50
    /\ \A i \in 1..Len(s) : s[i] \in {"a", "Z", "7", "_", "-"}

\* C23: Config.validate_patient_id returns (True, "") exactly for the
\* strings of 3 to 50 characters that are all letters, digits, underscores
\* or hyphens, and (False, non-empty message) for every other string.
C23_ValidatesExactly ==
    vres # NoResult
    => /\ (vres = [ok |-> TRUE, msg |-> ""]) <=> WellFormed(vid)
       /\ ~WellFormed(vid) => (~vres.ok /\ vres.msg # "")

\* ------------------------------------------------- DataManager (utils.py)
\* Config.create_directories / _cleanup_old_backups(keep_last=10)
KeepLast == 10

\* the keep_last most recent of the backups: the names sort by timestamp
Kept(bs) ==
    {b \in bs : Cardinality({c \in bs : c > b}) < KeepLast}

\* ------------------------------------- the symptom scripts and their log
\* Config.RETRAIN_INTERVAL, the interval of pages/malaria_reinforcement.py
\* and the interval of malaria_reinforcement.py
RETRAIN_INTERVAL == 5
PAGES_RETRAIN_INTERVAL == 5
LEGACY_RETRAIN_INTERVAL == 10

Interval ==
    IF app = "legacy" THEN LEGACY_RETRAIN_INTERVAL
    ELSE IF app = "pages" THEN PAGES_RETRAIN_INTERVAL
    ELSE RETRAIN_INTERVAL

\* number of symptoms on the form
NFeatures == 2

Labels == {"Positive (1)", "Negative (0)"}

\* what the user types as patient ID and ticks as symptoms
IdInputs == {<<>>, <<"a", "7">>, <<" ", "a", "7", "_">>}
FeatureInputs ==
    {[i \in 1..NFeatures |-> 0], [i \in 1..NFeatures |-> IF i = 1 THEN 1 ELSE 0]}

\* a record saved before the sessions started
PriorRecord(i) ==
    [n |-> -i, k |-> -i, pid |-> <<"o", "l", "d">>,
     features |-> [j \in 1..NFeatures |-> 1], predicted |-> "Positive (1)"]

PriorLog(c) == [exists |-> TRUE, rows |-> [i \in 1..c |-> PriorRecord(i)]]

\* the condition of the retraining notice and of retraining
AtInterval(count, n) == count >= n /\ count % n = 0

\* the session after a handler: its locals are gone, the pending prediction
\* stays or is reset
Rest(s, pending) == [sess EXCEPT ![s] = [Idle EXCEPT !.pending = pending]]

\* the record of a submit handler that ended
Submitted(s, shown, ret, failures, notice, seen, now) ==
    [NoHandler EXCEPT
       !.s = s, !.op = "submit", !.shown = shown,
       !.was = sess[s].pending, !.now = now,
       !.entry = sess[s].entry, !.before = sess[s].before,
       !.after = IF "write" \in failures \/ "load_raised" \in failures
                 THEN <<>> ELSE Append(sess[s].df, sess[s].entry),
       !.ret = ret, !.failures = failures, !.wrote = sess[s].wrote,
       !.notice = notice, !.seen = seen]

\* the predict handler storing the prediction whatever the validation says
PredictMalaria_stores_first(s, input, feats, outcome) ==
    /\ sess[s].at = "idle"
    /\ npred < MaxPredictions
    /\ LET patient_id == IF app = "improved"
                         THEN sanitize_patient_id(input)
                         ELSE input
           valid == IF app = "improved"
                    THEN validate_prediction_inputs(patient_id, feats).ok
                    ELSE input # <<>>
           stored == [k |-> npred + 1,
                      pid |-> patient_id,
                      features |-> feats,
                      label |-> outcome,
                      time |-> IF app = "improved" THEN clock ELSE 0]
           now == IF outcome # "raise" THEN stored ELSE sess[s].pending
       IN  /\ sess' = [sess EXCEPT ![s].pending = now]
           /\ npred' = IF outcome # "raise" THEN npred + 1 ELSE npred
           /\ last' = [NoHandler EXCEPT
                         !.s = s, !.op = "predict",
                         !.input = input, !.feats = feats,
                         !.was = sess[s].pending, !.now = now,
                         !.shown = IF ~valid
                                   THEN IF app = "improved" THEN "error"
                                        ELSE "warning"
                                   ELSE IF outcome = "raise" THEN "exception"
                                   ELSE "prediction"]
    /\ UNCHANGED <<pipelineVars, validateVars, logfile, backups, clock,
                   ncalls, saved, app, enable, modelfile, trained>>

\* the predict handler: "Predict Malaria Risk" of
\* malaria_reinforcement_improved.py (sanitize, validate, predict inside
\* try/except, store), "Predict Malaria" of the two other scripts (an empty ID
\* is refused, an exception of the model ends the run)
PredictMalaria(s, input, feats, outcome) ==
    /\ sess[s].at = "idle"
    /\ npred < MaxPredictions
    /\ LET patient_id == IF app = "improved"
                         THEN sanitize_patient_id(input)
                         ELSE input
           valid == IF app = "improved"
                    THEN validate_prediction_inputs(patient_id, feats).ok
                    ELSE input # <<>>
           stored == [k |-> npred + 1,
                      pid |-> patient_id,
                      features |-> feats,
                      label |-> outcome,
                      time |-> IF app = "improved" THEN clock ELSE 0]
           now == IF valid /\ outcome # "raise" THEN stored
                  ELSE sess[s].pending
       IN  /\ sess' = [sess EXCEPT ![s].pending = now]
           /\ npred' = IF valid /\ outcome # "raise" THEN npred + 1 ELSE npred
           /\ last' = [NoHandler EXCEPT
                         !.s = s, !.op = "predict",
                         !.input = input, !.feats = feats,
                         !.was = sess[s].pending, !.now = now,
                         !.shown = IF ~valid
                                   THEN IF app = "improved" THEN "error"
                                        ELSE "warning"
                                   ELSE IF outcome = "raise" THEN "exception"
                                   ELSE "prediction"]
    /\ UNCHANGED <<pipelineVars, validateVars, logfile, backups, clock,
                   ncalls, saved, app, enable, modelfile, trained>>

\* new_entry of the submit handler (without its Date and Actual Case, which
\* no handler reads)
NewEntry(s) ==
    [n |-> ncalls + 1,
     k |-> sess[s].pending.k,
     pid |-> sess[s].pending.pid,
     features |-> sess[s].pending.features,
     predicted |-> sess[s].pending.label]

\* the submit handler up to its first read of the log: the button is there
\* only with a pending prediction; new_entry is built and save_data calls
\* load_data.  DataManager.load_data gives an empty table for a missing file
\* and also for a file whose read fails; the load_data of the two other
\* scripts lets the error of read_csv end the run
Load(s, fails) ==
    /\ sess[s].at = "idle"
    /\ sess[s].pending # NoPrediction
    /\ ncalls < MaxSaves
    /\ fails => logfile.exists
    /\ ncalls' = ncalls + 1
    /\ LET called == [sess EXCEPT
                        ![s].at = IF app = "improved" THEN "backup" ELSE "write",
                        ![s].df = IF logfile.exists /\ ~fails
                                  THEN logfile.rows ELSE <<>>,
                        ![s].entry = NewEntry(s),
                        ![s].before = logfile.rows,
                        ![s].failures = IF fails THEN {"load"} ELSE {}]
       IN  IF app # "improved" /\ fails
           THEN /\ sess' = sess
                /\ last' = [NoHandler EXCEPT
                              !.s = s, !.op = "submit", !.shown = "exception",
                              !.was = sess[s].pending, !.now = sess[s].pending,
                              !.entry = NewEntry(s), !.before = logfile.rows,
                              !.failures = {"load_raised"}]
           ELSE /\ sess' = called
                /\ UNCHANGED last
    /\ UNCHANGED <<pipelineVars, validateVars, logfile, backups, clock,
                   saved, appVars>>

\* DataManager._create_backup(df) without its try/except: a failure leaves
\* save_data through its handler, which returns (False, 0, ...)
Backup_raises(s, failure) ==
    /\ sess[s].at = "backup"
    /\ clock' \in {clock, IF clock < MaxClock THEN clock + 1 ELSE clock}
    /\ backups' =
         IF failure = "start" THEN backups
         ELSE IF failure = "write" \/ sess[s].df = <<>> THEN Kept(backups)
         ELSE IF failure = "cleanup" THEN backups \cup {clock'}
         ELSE Kept(backups) \cup {clock'}
    /\ IF failure = "none"
       THEN /\ sess' = [sess EXCEPT ![s].at = "write",
                          ![s].wrote = backups' \ backups]
            /\ UNCHANGED last
       ELSE /\ sess' = Rest(s, sess[s].pending)
            /\ last' = [Submitted(s, "error",
                                  [success |-> FALSE, total |-> 0,
                                   msg |-> "Error saving data"],
                                  sess[s].failures \cup {"backup"}, 0, 0,
                                  sess[s].pending)
                          EXCEPT !.after = <<>>]
    /\ UNCHANGED <<pipelineVars, validateVars, logfile, ncalls, saved,
                   appVars>>

\* DataManager._create_backup(df): the time is read (it may have moved on by
\* a second), old backups are removed, then a non-empty table is written to
\* backup_<timestamp>.csv; any exception is swallowed ("start": nothing was
\* done, "cleanup": _cleanup_old_backups swallowed its own and removed
\* nothing, "write": the cleanup was done, the backup was not written)
Backup(s, failure) ==
    /\ sess[s].at = "backup"
    /\ clock' \in {clock, IF clock < MaxClock THEN clock + 1 ELSE clock}
    /\ backups' =
         IF failure = "start" THEN backups
         ELSE IF failure = "write" \/ sess[s].df = <<>> THEN Kept(backups)
         ELSE IF failure = "cleanup" THEN backups \cup {clock'}
         ELSE Kept(backups) \cup {clock'}
    /\ sess' = [sess EXCEPT
                  ![s].at = "write",
                  ![s].failures = IF failure = "none" THEN @ ELSE @ \cup {"backup"},
                  ![s].wrote = backups' \ backups]
    /\ UNCHANGED <<pipelineVars, validateVars, logfile, ncalls, last,
                   saved, appVars>>

\* pd.concat and to_csv: the file is replaced by the loaded table plus the
\* new entry; when to_csv raises the file is as it was or, opened for
\* writing already, empty.  DataManager.save_data returns (True, len(df), ...)
\* or, on the exception, (False, 0, ...), and the handler of
\* malaria_reinforcement_improved.py goes on: on success the notice of the
\* interval and the reset of the pending prediction.  The save_data of the
\* two other scripts lets the exception end the run and is followed by
\* retrain_model
Write(s, fails, truncated) ==
    /\ sess[s].at = "write"
    /\ truncated => fails
    /\ LET new == Append(sess[s].df, sess[s].entry)
           ok == [success |-> TRUE, total |-> Len(new),
                  msg |-> "Data saved successfully"]
           failed == [success |-> FALSE, total |-> 0,
                      msg |-> "Error saving data"]
           note == IF ~enable /\ AtInterval(Len(new), RETRAIN_INTERVAL)
                   THEN Len(new) ELSE 0
       IN  /\ logfile' = IF ~fails THEN [exists |-> TRUE, rows |-> new]
                         ELSE IF truncated THEN [exists |-> TRUE, rows |-> <<>>]
                         ELSE logfile
           /\ saved' = IF fails THEN saved ELSE saved \cup {sess[s].entry}
           /\ IF app = "improved"
              THEN IF fails
                   THEN /\ sess' = Rest(s, sess[s].pending)
                        /\ last' = Submitted(s, "error", failed,
                                             sess[s].failures \cup {"write"},
                                             0, 0, sess[s].pending)
                   ELSE /\ sess' = Rest(s, NoPrediction)
                        /\ last' = Submitted(s, "saved", ok, sess[s].failures,
                                             note, 0, NoPrediction)
              ELSE IF fails
                   THEN /\ sess' = Rest(s, sess[s].pending)
                        /\ last' = Submitted(s, "exception", NoReturn,
                                             sess[s].failures \cup {"write"},
                                             0, 0, sess[s].pending)
                   ELSE /\ sess' = [sess EXCEPT
                                      ![s].at = "retrain",
                                      ![s].ret = IF app = "pages" THEN ok
                                                 ELSE NoReturn]
                        /\ UNCHANGED last
    /\ UNCHANGED <<pipelineVars, validateVars, backups, clock, ncalls,
                   appVars>>

\* retrain_model without its test of ENABLE_RETRAINING
Retrain_ignores_flag(s, fails, outcome) ==
    /\ sess[s].at = "retrain"
    /\ fails => logfile.exists
    /\ LET count == IF logfile.exists THEN Len(logfile.rows) ELSE 0
           due == AtInterval(count, Interval)
           now == IF app = "pages" THEN NoPrediction ELSE sess[s].pending
       IN  IF fails
           THEN /\ sess' = Rest(s, sess[s].pending)
                /\ last' = Submitted(s, "exception", sess[s].ret,
                                     sess[s].failures \cup {"reload"}, 0, 0,
                                     sess[s].pending)
                /\ UNCHANGED <<modelfile, trained>>
           ELSE /\ sess' = Rest(s, now)
                /\ last' = [Submitted(s, "saved", sess[s].ret,
                                      sess[s].failures, 0, count, now)
                              EXCEPT !.trained = due]
                /\ trained' = IF due THEN Append(trained, count) ELSE trained
                /\ modelfile' = IF due /\ outcome = "ok" THEN modelfile + 1
                                ELSE modelfile
    /\ UNCHANGED <<pipelineVars, validateVars, logfile, backups, clock,
                   ncalls, saved, app, enable, npred>>

\* retrain_model of pages/malaria_reinforcement.py and of
\* malaria_reinforcement.py, and the rest of the submit handler: the log is
\* read again (an error of read_csv ends the run); with retraining disabled
\* (pages only) a notice is shown at the interval; otherwise the model is
\* trained and saved at the interval, an exception of the training being
\* caught.  pages/malaria_reinforcement.py then resets the pending
\* prediction, malaria_reinforcement.py does not
Retrain(s, fails, outcome) ==
    /\ sess[s].at = "retrain"
    /\ fails => logfile.exists
    /\ LET count == IF logfile.exists THEN Len(logfile.rows) ELSE 0
           disabled == app = "pages" /\ ~enable
           due == AtInterval(count, Interval)
           now == IF app = "pages" THEN NoPrediction ELSE sess[s].pending
       IN  IF fails
           THEN /\ sess' = Rest(s, sess[s].pending)
                /\ last' = Submitted(s, "exception", sess[s].ret,
                                     sess[s].failures \cup {"reload"}, 0, 0,
                                     sess[s].pending)
                /\ UNCHANGED <<modelfile, trained>>
           ELSE /\ sess' = Rest(s, now)
                /\ last' = [Submitted(s, "saved", sess[s].ret,
                                      sess[s].failures,
                                      IF disabled /\ due THEN count ELSE 0,
                                      count, now)
                              EXCEPT !.trained = ~disabled /\ due]
                /\ trained' = IF ~disabled /\ due THEN Append(trained, count)
                              ELSE trained
                /\ modelfile' = IF ~disabled /\ due /\ outcome = "ok"
                                THEN modelfile + 1
                                ELSE modelfile
    /\ UNCHANGED <<pipelineVars, validateVars, logfile, backups, clock,
                   ncalls, saved, app, enable, npred>>

\* a second passes
Tick ==
    /\ clock < MaxClock
    /\ clock' = clock + 1
    /\ UNCHANGED <<pipelineVars, validateVars, logfile, backups, sess,
                   ncalls, last, saved, appVars>>

IsPrefix(a, b) ==
    /\ Len(a) <= Len(b)
    /\ \A i \in 1..Len(a) : a[i] = b[i]

\* C20: after a call of save_data that reports success, every record that
\* was in the log when the call read it is still there, unchanged and in
\* place, the new entry is the last record, and the returned total is the
\* previous number of records plus one, also when reading the log failed.
C20_AppendOnly ==
    (last.op = "submit" /\ last.ret.success)
    => /\ IsPrefix(last.before, last.after)
       /\ last.after[Len(last.after)] = last.entry
       /\ last.ret.total = Len(last.before) + 1

\* no save is under way
AllIdle == \A s \in Sessions : sess[s].at = "idle"

\* C21: after any sequence of save_data calls the backup directory holds at
\* most 10 backup files.
C21_AtMostTenBackups ==
    AllIdle => Cardinality(backups) <= 10

\* C22: every failure while loading, appending or writing is reported by
\* save_data as (False, 0, message), and a call that reports success returns
\* the number of records the log holds after its write.
C22_FailuresReported ==
    (last.op = "submit" /\ app = "improved")
    => /\ last.failures \cap {"load", "write"} # {}
          => (~last.ret.success /\ last.ret.total = 0 /\ last.ret.msg # "")
       /\ last.ret.success => last.ret.total = Len(last.after)

\* C24: when two sessions call save_data concurrently and both calls report
\* success without any failure, the log holds both new records: every record
\* whose save succeeded is in the log.
C24_NoLostRecord ==
    (last.op = "submit" /\ last.failures = {} /\ AllIdle
       /\ Cardinality(saved) = 2)
    => saved \subseteq Range(logfile.rows)

\* C25: in malaria_reinforcement_improved.py and
\* pages/malaria_reinforcement.py a record is saved only while a prediction
\* is pending, it carries the patient ID, the symptoms and the label of that
\* prediction, a save that succeeded leaves no pending prediction, and no
\* prediction has two saved records.
C25_OneRecordPerPrediction ==
    app \in {"improved", "pages"}
    => /\ \A s \in Sessions :
            sess[s].at # "idle" => sess[s].pending # NoPrediction
       /\ last.op = "submit"
          => /\ last.was # NoPrediction
             /\ last.entry.pid = last.was.pid
             /\ last.entry.features = last.was.features
             /\ last.entry.predicted = last.was.label
       /\ (last.op = "submit" /\ last.entry \in saved)
          => last.now = NoPrediction
       /\ \A e1 \in saved, e2 \in saved : e1.k = e2.k => e1 = e2

\* C26: with retraining on (malaria_reinforcement.py, N = 10;
\* pages/malaria_reinforcement.py with ENABLE_RETRAINING, N = 5) a submit
\* handler that met no failure, while every save so far wrote its record,
\* attempts retraining exactly when the record count after its save is at
\* least N and a multiple of N, and no count is trained on twice.
C26_RetrainExactlyAtInterval ==
    (app = "legacy" \/ (app = "pages" /\ enable))
    => /\ (last.op = "submit" /\ last.failures = {}
             /\ Cardinality(saved) = ncalls)
          => LET count == Len(last.after)
                 N == IF app = "legacy" THEN 10 ELSE 5
             IN  last.trained <=> (count >= N /\ count % N = 0)
       /\ \A i \in 1..Len(trained), j \in 1..Len(trained) :
            i # j => trained[i] # trained[j]

Rejected(input, feats) ==
    \/ ~validate_patient_id(sanitize_patient_id(input)).ok
    \/ \A i \in 1..Len(feats) : feats[i] = 0

\* C28: in malaria_reinforcement_improved.py a predict action whose
\* sanitized patient ID is invalid or whose symptoms are all 0 makes no
\* prediction and leaves the pending prediction (patient_id, features,
\* predicted_case, prediction_time) as it was; a pending prediction is stored
\* only after the validation succeeded and the model returned a label.
C28_InvalidInputsStoreNothing ==
    (last.op = "predict" /\ app = "improved")
    => /\ sess[last.s].pending = last.now
       /\ Rejected(last.input, last.feats)
          => (last.now = last.was /\ last.shown = "error")
       /\ last.now # last.was
          => /\ ~Rejected(last.input, last.feats)
             /\ last.now.label \in Labels
             /\ last.now.pid = sanitize_patient_id(last.input)
             /\ last.now.features = last.feats

C28_Witness ==
    /\ last.op = "predict"
    /\ app = "improved"
    /\ Rejected(last.input, last.feats)
    /\ last.was # NoPrediction
    /\ last.was.time # clock
    /\ sess[last.s].pending = last.was

\* C29: a failure while creating or rotating backups does not fail the save:
\* unless the write of the log itself fails, save_data appends the new record
\* and reports success; and when the existing log is empty no backup file is
\* written.
C29_BackupFailureHarmless ==
    /\ (last.op = "submit" /\ "backup" \in last.failures
          /\ "write" \notin last.failures)
       => /\ last.ret.success
          /\ last.after # <<>>
          /\ last.after[Len(last.after)] = last.entry
          /\ last.entry \in saved
    /\ (last.op = "submit" /\ last.before = <<>>) => last.wrote = {}
    /\ \A s \in Sessions :
         (sess[s].at = "write" /\ sess[s].before = <<>>) => sess[s].wrote = {}

C29_Witness ==
    /\ last.op = "submit"
    /\ "backup" \in last.failures
    /\ last.ret.success
    /\ last.entry \in Range(logfile.rows)

\* a widget changes (the date, the layer) and Streamlit runs the script
\* again from the top; the cache lives on
Rerun ==
    /\ pc \in {"error_retrieval", "crashed", "stopped", "predicted"}
    /\ run < MaxRuns
    /\ run' = run + 1
    /\ date' \in Dates
    /\ pc' = "locations"
    /\ locations' = <<>>
    /\ fut' = <<>>
    /\ yielded' = {}
    /\ results' = <<>>
    /\ exc' = "none"
    /\ df' = None
    /\ gdf' = gdf0
    /\ X_pred' = None
    /\ X_aligned' = None
    /\ X_pred_scaled' = None
    /\ pred_cases' = <<>>
    /\ calls' = <<>>
    /\ message' = NoMessage
    /\ UNCHANGED <<variant, expected, apiCols, gdf0, cache, logVars, appVars,
                   validateVars>>

Next ==
    \/ Locations
    \/ Submit
    \/ \E i \in 1..NRows : Start(i)
    \/ \E i \in 1..NRows, r \in Responses : Finish(i, r)
    \/ \E i \in 1..NRows : Hang(i)
    \/ \E i \in 1..NRows : Consume(i)
    \/ Return
    \/ Raise
    \/ RetrievalFailed
    \/ Merge
    \/ Rename
    \/ FillZero
    \/ DedupGdf
    \/ Select
    \/ FeatureCheck
    \/ FillMean
    \/ DedupX
    \/ Reindex
    \/ Transform
    \/ Predict

Spec == Init /\ [][Next]_vars

\* the script's scheduling: every step that can be taken is taken
FairSpec == Spec /\ WF_vars(Next)

\* a session in which the script runs again and again
InitSession ==
    /\ Init
    /\ expected = <<"LST", "Relative_H", "Rainfall">>

NextSession == Next \/ CacheHit \/ Rerun

SessionSpec == InitSession /\ [][NextSession]_vars

\* the climate script, fixed and at rest
PipelineAtRest ==
    /\ variant = "zero"
    /\ expected = <<"Rainfall", "LST", "Relative_H">>
    /\ apiCols = PARAMETERS
    /\ gdf0 = Shapefile([i \in 1..NRows |-> 1])
    /\ InitPipeline

\* a prediction made before the log is watched
PriorPrediction(s, label) ==
    [k |-> s, pid |-> <<"a", "7", "_">>,
     features |-> [i \in 1..NFeatures |-> IF i = 1 THEN 1 ELSE 0],
     label |-> label, time |-> 1]

\* sessions of malaria_reinforcement_improved.py, each with a pending
\* prediction, saving through DataManager.save_data, on a new installation
\* or on one that has saved KeepLast + 1 records, a second apart, before
\* (the first save leaves no backup)
InitLog ==
    /\ PipelineAtRest
    /\ InitValidate
    /\ app = "improved"
    /\ enable = FALSE
    /\ \/ logfile = [exists |-> FALSE, rows |-> <<>>] /\ backups = {}
       \/ logfile = PriorLog(KeepLast + 1) /\ backups = (1 - KeepLast)..0
    /\ clock = 1
    /\ sess = [s \in Sessions |->
                [Idle EXCEPT !.pending = PriorPrediction(s, "Positive (1)")]]
    /\ ncalls = 0
    /\ last = NoHandler
    /\ saved = {}
    /\ modelfile = 0
    /\ trained = <<>>
    /\ npred = NSessions

NextLog ==
    \/ \E s \in Sessions, fails \in BOOLEAN : Load(s, fails)
    \/ \E s \in Sessions, failure \in {"none", "start", "cleanup", "write"} :
          Backup(s, failure)
    \/ \E s \in Sessions, fails \in BOOLEAN, truncated \in BOOLEAN :
          Write(s, fails, truncated)

LogSpec == InitLog /\ [][NextLog]_vars

\* sessions of malaria_reinforcement_improved.py asking for predictions
InitPredict ==
    /\ PipelineAtRest
    /\ InitValidate
    /\ InitRecords

NextPredict ==
    \/ \E s \in Sessions, input \in IdInputs, feats \in FeatureInputs,
          outcome \in Labels \cup {"raise"} :
          PredictMalaria(s, input, feats, outcome)
    \/ Tick

PredictSpec == InitPredict /\ [][NextPredict]_vars

\* sessions of the three symptom scripts predicting and saving, within one
\* second
InitApp ==
    /\ PipelineAtRest
    /\ InitValidate
    /\ app \in {"improved", "pages", "legacy"}
    /\ enable \in BOOLEAN
    /\ app = "legacy" => enable
    /\ logfile \in {[exists |-> FALSE, rows |-> <<>>], PriorLog(Interval - 1)}
    /\ backups = {}
    /\ clock = 1
    /\ sess = [s \in Sessions |-> Idle]
    /\ ncalls = 0
    /\ last = NoHandler
    /\ saved = {}
    /\ modelfile = 0
    /\ trained = <<>>
    /\ npred = 0

NextApp ==
    \/ \E s \in Sessions, input \in IdInputs, feats \in FeatureInputs,
          outcome \in Labels \cup {"raise"} :
          PredictMalaria(s, input, feats, outcome)
    \/ \E s \in Sessions, fails \in BOOLEAN : Load(s, fails)
    \/ \E s \in Sessions, failure \in {"none", "start", "cleanup", "write"} :
          Backup(s, failure)
    \/ \E s \in Sessions, fails \in BOOLEAN, truncated \in BOOLEAN :
          Write(s, fails, truncated)
    \/ \E s \in Sessions, fails \in BOOLEAN, outcome \in {"ok", "error"} :
          Retrain(s, fails, outcome)

AppSpec == InitApp /\ [][NextApp]_vars

\* sessions of malaria_reinforcement_improved.py and of
\* pages/malaria_reinforcement.py with ENABLE_RETRAINING false, each with a
\* pending prediction, saving
InitStable ==
    /\ PipelineAtRest
    /\ InitValidate
    /\ app \in {"improved", "pages"}
    /\ enable = FALSE
    /\ logfile \in {[exists |-> FALSE, rows |-> <<>>], PriorLog(Interval - 1)}
    /\ backups = {}
    /\ clock = 1
    /\ sess = [s \in Sessions |->
                [Idle EXCEPT !.pending = PriorPrediction(s, "Positive (1)")]]
    /\ ncalls = 0
    /\ last = NoHandler
    /\ saved = {}
    /\ modelfile = 0
    /\ trained = <<>>
    /\ npred = NSessions

NextStable ==
    \/ NextLog
    \/ \E s \in Sessions, fails \in BOOLEAN, outcome \in {"ok", "error"} :
          Retrain(s, fails, outcome)

StableSpec == InitStable /\ [][NextStable]_vars

\* calls of Config.validate_patient_id
InitValidation ==
    /\ PipelineAtRest
    /\ InitRecords
    /\ vid \in PatientIds
    /\ vres = NoResult

ValidateSpec == InitValidation /\ [][Validate]_vars
====
